---- MODULE Spec2Model ----
(***************************************************************************)
(* Model of src/config/express.js: the Express application built from an   *)
(* ordered list of middleware, and the life of one request through it:     *)
(* upstream middleware, the /api router, the error-normalization handler,  *)
(* the 404 middleware and the terminal error handler.                      *)
(*                                                                         *)
(* JavaScript objects are functions from property names to values; a       *)
(* property that is undefined is not in the DOMAIN.  A JSON body is        *)
(* modelled the same way (JSON.stringify drops undefined properties).      *)
(***************************************************************************)
EXTENDS Integers, Sequences, FiniteSets, TLC

VARIABLES
  nodeEnv,      \* env.nodeEnv, fixed at process start
  pipeline,     \* the middleware stack of app, in registration order
  idx,          \* 0: no request in flight; otherwise the next layer to consider
  err,          \* the error handed to next(err), or NoErr
  failure,      \* the failure value as it was first raised, or NoErr
  origin,       \* who raised it: "none", "upstream", "route", "notFound"
  routeOutcome, \* "none", "responded", "failed", "nomatch"
  ran,          \* the stages whose handler was invoked for this request
  response,     \* what was written to res
  logged        \* what the terminal handler wrote with console.error

vars == <<nodeEnv, pipeline, idx, err, failure, origin, routeOutcome, ran,
          response, logged>>

-----------------------------------------------------------------------------
(* Bounds *)

MaxGroups == 2   \* field-error groups in one validation failure
MaxMsgs == 2     \* messages in one field-error group

-----------------------------------------------------------------------------
(* Values *)

NodeEnvs == {"dev", "prod", "test"}

NOT_FOUND == 404
INTERNAL_SERVER_ERROR == 500

\* httpStatus[code]: the status texts of the http-status package; a code
\* outside the table (520 below) reads as undefined.
HttpStatusCodes == {400, 404, 422, 500}
httpStatus ==
  [c \in HttpStatusCodes |->
     CASE c = 400 -> "Bad Request"
       [] c = 404 -> "Not Found"
       [] c = 422 -> "Unprocessable Entity"
       [] c = 500 -> "Internal Server Error"]

EmptyObject == "{}"
NoErr == [kind |-> "none"]
NoResp == [sent |-> FALSE]

Has(o, k) == k \in DOMAIN o
Opt(k, vals) == {<<>>} \cup {[f \in {k} |-> v] : v \in vals}
\* the property k of o under the name k2, or nothing when it is undefined
Pick(o, k, k2) == IF Has(o, k) THEN [f \in {k2} |-> o[k]] ELSE <<>>
Truthy(o, k) == Has(o, k) /\ o[k] = TRUE

RECURSIVE Join(_, _)
\* Array.prototype.join
Join(s, d) ==
  IF Len(s) = 0 THEN ""
  ELSE IF Len(s) = 1 THEN s[1]
  ELSE s[1] \o d \o Join(Tail(s), d)

SeqsUpTo(S, n) == UNION {[1..k -> S] : k \in 1..n}

\* new APIError(message, status, isPublic) called at `site`; an omitted or
\* undefined argument is absent from args.
APIError(args, site) ==
  [kind |-> "APIError",
   status |-> IF Has(args, "status") THEN args.status ELSE INTERNAL_SERVER_ERROR,
   isPublic |-> IF Has(args, "isPublic") THEN args.isPublic ELSE FALSE,
   stack |-> "APIError at " \o site]
  @@ Pick(args, "message", "message")

-----------------------------------------------------------------------------
(* Failure values a stage can raise *)

FieldMsgs == {"is required", "must be a number"}
ErrMsgs == {"db down", "boom"}

\* validation.ValidationError: errors is an array of { messages: [...] }
ValidationFailures ==
  {[kind |-> "ValidationError", errors |-> es, status |-> s] @@ st :
     es \in SeqsUpTo(SeqsUpTo(FieldMsgs, MaxMsgs), MaxGroups),
     s \in {400, 422},
     st \in Opt("stack", {"ValidationError at validate"})}

\* APIErrors thrown by route handlers
RouteAPIErrors ==
  {APIError(m @@ s @@ p, "route") :
     m \in Opt("message", ErrMsgs),
     s \in Opt("status", {400, 500, 520}),
     p \in Opt("isPublic", {TRUE, FALSE})}

\* any other thrown or rejected value
OtherFailures ==
  {[kind |-> "Other"] @@ m @@ s @@ p @@ st :
     m \in Opt("message", ErrMsgs),
     s \in Opt("status", {400, 500, 520}),
     p \in Opt("isPublic", {TRUE, FALSE}),
     st \in Opt("stack", {"Error at handler"})}

RouteFailures == ValidationFailures \cup RouteAPIErrors \cup OtherFailures

-----------------------------------------------------------------------------
(* Building the application *)

\* variant: the 'prod' branch is lost, every logging mode logs to the console
AccessLog_ConsoleOnly(env) ==
  IF env # "test" THEN <<"morgan-console">> ELSE <<>>

AccessLog(env) ==
  IF env = "prod" THEN <<"morgan-stream">>
  ELSE IF env # "test" THEN <<"morgan-console">>
  ELSE <<>>

AuditLog(env) == IF env # "test" THEN <<"expressWinston">> ELSE <<>>

\* variant: the normalization handler is registered after the terminal one
BuildPipeline_NormalizeLast(env) ==
  <<"compression", "urlencoded", "json", "methodOverride">>
  \o AccessLog(env)
  \o <<"cors", "crossdomain", "xssFilter", "noSniff", "frameguard",
       "ieNoOpen", "hidePoweredBy">>
  \o AuditLog(env)
  \o <<"routes", "notFound", "errorHandler", "normalize">>

BuildPipeline(env) ==
  <<"compression", "urlencoded", "json", "methodOverride">>
  \o AccessLog(env)
  \o <<"cors", "crossdomain", "xssFilter", "noSniff", "frameguard",
       "ieNoOpen", "hidePoweredBy">>
  \o AuditLog(env)
  \o <<"routes", "normalize", "notFound", "errorHandler">>

\* variant: the 404 middleware is declared with four parameters as well
IsErrorHandler_NotFoundToo(stage) ==
  stage \in {"normalize", "notFound", "errorHandler"}

\* handlers registered with four parameters (err, req, res, next)
IsErrorHandler(stage) == stage \in {"normalize", "errorHandler"}

UpstreamStages ==
  {"compression", "urlencoded", "json", "methodOverride", "morgan-stream",
   "morgan-console", "cors", "crossdomain", "xssFilter", "noSniff",
   "frameguard", "ieNoOpen", "hidePoweredBy", "expressWinston"}

-----------------------------------------------------------------------------
(* The handlers *)

\* variant: the two delimiters of the validation message are exchanged
Normalize_SwappedDelimiters(e) ==
  IF e.kind = "ValidationError" THEN
    LET unifiedErrorMessage ==
          Join([i \in 1..Len(e.errors) |-> Join(e.errors[i], " and ")], ". ")
    IN APIError([message |-> unifiedErrorMessage, isPublic |-> TRUE]
                @@ Pick(e, "status", "status"), "normalize")
  ELSE IF e.kind # "APIError" THEN
    APIError(Pick(e, "message", "message") @@ Pick(e, "status", "status")
             @@ Pick(e, "isPublic", "isPublic"), "normalize")
  ELSE e

\* variant: the instanceof APIError test is lost, every error is wrapped anew
Normalize_AlwaysWrap(e) ==
  IF e.kind = "ValidationError" THEN
    LET unifiedErrorMessage ==
          Join([i \in 1..Len(e.errors) |-> Join(e.errors[i], ". ")], " and ")
    IN APIError([message |-> unifiedErrorMessage, isPublic |-> TRUE]
                @@ Pick(e, "status", "status"), "normalize")
  ELSE
    APIError(Pick(e, "message", "message") @@ Pick(e, "status", "status")
             @@ Pick(e, "isPublic", "isPublic"), "normalize")

\* variant: the wrapper is built without the failure's status
Normalize_DropStatus(e) ==
  IF e.kind = "ValidationError" THEN
    LET unifiedErrorMessage ==
          Join([i \in 1..Len(e.errors) |-> Join(e.errors[i], ". ")], " and ")
    IN APIError([message |-> unifiedErrorMessage, isPublic |-> TRUE]
                @@ Pick(e, "status", "status"), "normalize")
  ELSE IF e.kind # "APIError" THEN
    APIError(Pick(e, "message", "message")
             @@ Pick(e, "isPublic", "isPublic"), "normalize")
  ELSE e

Normalize(e) ==
  IF e.kind = "ValidationError" THEN
    LET unifiedErrorMessage ==
          Join([i \in 1..Len(e.errors) |-> Join(e.errors[i], ". ")], " and ")
    IN APIError([message |-> unifiedErrorMessage, isPublic |-> TRUE]
                @@ Pick(e, "status", "status"), "normalize")
  ELSE IF e.kind # "APIError" THEN
    APIError(Pick(e, "message", "message") @@ Pick(e, "status", "status")
             @@ Pick(e, "isPublic", "isPublic"), "normalize")
  ELSE e

NotFoundError == APIError([message |-> "API not found!", status |-> NOT_FOUND],
                          "notFound")

\* variant: the message is sent whether or not the error is public
JsonBody_AlwaysMessage(e, env) ==
  Pick(e, "message", "message")
  @@ (IF env = "dev" THEN Pick(e, "stack", "stack")
      ELSE [stack |-> EmptyObject])

\* variant: the stack is withheld in production only
JsonBody_StackUnlessProd(e, env) ==
  (IF Truthy(e, "isPublic") THEN Pick(e, "message", "message")
   ELSE IF Has(e, "status") /\ e.status \in DOMAIN httpStatus
        THEN [message |-> httpStatus[e.status]]
        ELSE <<>>)
  @@ (IF env # "prod" THEN Pick(e, "stack", "stack")
      ELSE [stack |-> EmptyObject])

JsonBody(e, env) ==
  (IF Truthy(e, "isPublic") THEN Pick(e, "message", "message")
   ELSE IF Has(e, "status") /\ e.status \in DOMAIN httpStatus
        THEN [message |-> httpStatus[e.status]]
        ELSE <<>>)
  @@ (IF env = "dev" THEN Pick(e, "stack", "stack")
      ELSE [stack |-> EmptyObject])

-----------------------------------------------------------------------------
(* State machine *)

InFlight == idx \in 1..Len(pipeline)
Stage == pipeline[idx]
Done == idx = Len(pipeline) + 1

\* the router of express invokes a layer only when its arity matches: an
\* error handler while an error is in flight, a plain middleware while none is
Matches(stage, e) == IsErrorHandler(stage) = (e # NoErr)
Invoked(stages) == InFlight /\ Stage \in stages /\ Matches(Stage, err)

Init ==
  /\ nodeEnv \in NodeEnvs
  /\ pipeline = BuildPipeline(nodeEnv)
  /\ idx = 0
  /\ err = NoErr
  /\ failure = NoErr
  /\ origin = "none"
  /\ routeOutcome = "none"
  /\ ran = <<>>
  /\ response = NoResp
  /\ logged = NoErr

\* a request arrives (the previous one, if any, is finished)
Receive ==
  /\ idx = 0 \/ Done
  /\ idx' = 1
  /\ err' = NoErr
  /\ failure' = NoErr
  /\ origin' = "none"
  /\ routeOutcome' = "none"
  /\ ran' = <<>>
  /\ response' = NoResp
  /\ logged' = NoErr
  /\ UNCHANGED <<nodeEnv, pipeline>>

\* a layer whose arity does not match is passed over
Skip ==
  /\ InFlight
  /\ ~Matches(Stage, err)
  /\ idx' = idx + 1
  /\ UNCHANGED <<nodeEnv, pipeline, err, failure, origin, routeOutcome, ran,
                 response, logged>>

UpstreamContinue ==
  /\ Invoked(UpstreamStages)
  /\ ran' = Append(ran, Stage)
  /\ idx' = idx + 1
  /\ UNCHANGED <<nodeEnv, pipeline, err, failure, origin, routeOutcome,
                 response, logged>>

UpstreamFail ==
  /\ Invoked(UpstreamStages)
  /\ \E f \in OtherFailures :
       /\ err' = f
       /\ failure' = f
  /\ origin' = "upstream"
  /\ ran' = Append(ran, Stage)
  /\ idx' = idx + 1
  /\ UNCHANGED <<nodeEnv, pipeline, routeOutcome, response, logged>>

RouteRespond ==
  /\ Invoked({"routes"})
  /\ routeOutcome' = "responded"
  /\ response' = [sent |-> TRUE, by |-> "routes"]
  /\ ran' = Append(ran, Stage)
  /\ idx' = Len(pipeline) + 1
  /\ UNCHANGED <<nodeEnv, pipeline, err, failure, origin, logged>>

RouteFail ==
  /\ Invoked({"routes"})
  /\ \E f \in RouteFailures :
       /\ err' = f
       /\ failure' = f
  /\ origin' = "route"
  /\ routeOutcome' = "failed"
  /\ ran' = Append(ran, Stage)
  /\ idx' = idx + 1
  /\ UNCHANGED <<nodeEnv, pipeline, response, logged>>

RouteNoMatch ==
  /\ Invoked({"routes"})
  /\ routeOutcome' = "nomatch"
  /\ ran' = Append(ran, Stage)
  /\ idx' = idx + 1
  /\ UNCHANGED <<nodeEnv, pipeline, err, failure, origin, response, logged>>

ErrorNormalization ==
  /\ Invoked({"normalize"})
  /\ err' = Normalize(err)
  /\ ran' = Append(ran, Stage)
  /\ idx' = idx + 1
  /\ UNCHANGED <<nodeEnv, pipeline, failure, origin, routeOutcome, response,
                 logged>>

NotFound ==
  /\ Invoked({"notFound"})
  /\ err' = NotFoundError
  /\ failure' = NotFoundError
  /\ origin' = "notFound"
  /\ ran' = Append(ran, Stage)
  /\ idx' = idx + 1
  /\ UNCHANGED <<nodeEnv, pipeline, routeOutcome, response, logged>>

TerminalResponder ==
  /\ Invoked({"errorHandler"})
  /\ response' = [sent |-> TRUE, by |-> "errorHandler",
                  body |-> JsonBody(err, nodeEnv)]
                 @@ Pick(err, "status", "status")
  /\ logged' = IF nodeEnv = "dev" THEN err ELSE logged
  /\ ran' = Append(ran, Stage)
  /\ idx' = idx + 1
  /\ UNCHANGED <<nodeEnv, pipeline, err, failure, origin, routeOutcome>>

Next ==
  \/ Receive
  \/ Skip
  \/ UpstreamContinue
  \/ UpstreamFail
  \/ RouteRespond
  \/ RouteFail
  \/ RouteNoMatch
  \/ ErrorNormalization
  \/ NotFound
  \/ TerminalResponder

Spec == Init /\ [][Next]_vars

-----------------------------------------------------------------------------
(* Properties *)

InRan(stage) == \E i \in 1..Len(ran) : ran[i] = stage
InPipeline(stage) == \E i \in 1..Len(pipeline) : pipeline[i] = stage
Pos(stage) == CHOOSE i \in 1..Len(ran) : ran[i] = stage
\* the terminal handler has written the response of this request
Responded == Has(response, "by") /\ response.by = "errorHandler"
Message(o) == Pick(o, "message", "message")
\* the uniform errors the handlers of this model can produce
UniformErrors == {Normalize(f) : f \in RouteFailures} \cup {NotFoundError}

\* C1: for a request that matches no route, the response of the terminal
\* handler has status 404 and body message "API not found!".
C1_NotFoundResponse ==
  (Responded /\ origin = "notFound") =>
    /\ Has(response, "status") /\ response.status = 404
    /\ Has(response.body, "message")
    /\ response.body.message = "API not found!"

\* C2: a non-public error is answered with the status text of its status
\* (nothing when the status has none), whatever its own message is: any other
\* non-public error of the same status gets the same message; a public error
\* is answered with its own message.
C2_MessageDisclosure ==
  Responded =>
    /\ Truthy(err, "isPublic") => Message(response.body) = Message(err)
    /\ ~Truthy(err, "isPublic") =>
         /\ Message(response.body) =
              (IF err.status \in DOMAIN httpStatus
               THEN [message |-> httpStatus[err.status]] ELSE <<>>)
         /\ err.status = 500 =>
              Message(response.body) = [message |-> "Internal Server Error"]
         /\ \A e2 \in UniformErrors :
              (~Truthy(e2, "isPublic") /\ e2.status = err.status) =>
                Message(JsonBody(e2, nodeEnv)) = Message(response.body)

C2_Witness ==
  /\ Responded
  /\ ~Truthy(err, "isPublic")
  /\ err.status = 500
  /\ Message(err) = [message |-> "db down"]
  /\ response.body.message = "Internal Server Error"

\* C3: in mode dev the body carries a non-empty stack whenever the failure
\* had one; in every other mode the stack of the body is the empty object.
C3_StackGating ==
  Responded =>
    /\ (nodeEnv = "dev" /\ Has(failure, "stack")) =>
         /\ Has(response.body, "stack")
         /\ response.body.stack \notin {EmptyObject, ""}
    /\ nodeEnv # "dev" =>
         /\ Has(response.body, "stack")
         /\ response.body.stack = EmptyObject

C3_Witness ==
  /\ Responded
  /\ nodeEnv = "dev"
  /\ Has(failure, "stack")
  /\ response.body.stack = "APIError at normalize"

\* the validation message with `within` between the messages of a group
UnifiedMessage(f, within) ==
  Join([i \in 1..Len(f.errors) |-> Join(f.errors[i], within)], " and ")

\* C4 as stated: a normalized validation failure has the messages joined by
\* "." within a group and " and " across groups, the failure's status and
\* isPublic = true.
C4_Original ==
  (failure.kind = "ValidationError" /\ InRan("normalize")) =>
    /\ err.message = UnifiedMessage(failure, ".")
    /\ err.status = failure.status
    /\ err.isPublic = TRUE

\* C4 amended: the same with ". " (a full stop and a space) within a group.
C4_ValidationMessage ==
  (failure.kind = "ValidationError" /\ InRan("normalize")) =>
    /\ err.kind = "APIError"
    /\ err.message = UnifiedMessage(failure, ". ")
    /\ err.status = failure.status
    /\ err.isPublic = TRUE

C4_Witness ==
  /\ failure.kind = "ValidationError"
  /\ InRan("normalize")
  /\ failure.errors = <<<<"is required", "must be a number">>, <<"is required">>>>
  /\ err.message = "is required. must be a number and is required"
  /\ err.status = 422

\* C5: an APIError given to the normalization handler is forwarded as it is
\* (message, status, isPublic and stack), and normalizing what normalization
\* forwarded yields the same error again.
C5_Idempotent ==
  InRan("normalize") =>
    /\ failure.kind = "APIError" => err = failure
    /\ Normalize(err) = err

C5_Witness ==
  /\ InRan("normalize")
  /\ failure.kind = "APIError"
  /\ failure.stack = "APIError at route"
  /\ Has(failure, "message")
  /\ err = failure

\* C6: a failure that is neither a validation failure nor an APIError is
\* wrapped with its message, its status or 500, its isPublic or false; a
\* plain error without status is answered 500 "Internal Server Error".
C6_WrapDefaults ==
  (failure.kind = "Other" /\ InRan("normalize")) =>
    /\ err.kind = "APIError"
    /\ Message(err) = Message(failure)
    /\ err.status = (IF Has(failure, "status") THEN failure.status ELSE 500)
    /\ err.isPublic =
         (IF Has(failure, "isPublic") THEN failure.isPublic ELSE FALSE)
    /\ (Responded /\ ~Has(failure, "status") /\ ~Has(failure, "isPublic")) =>
         /\ response.status = 500
         /\ response.body.message = "Internal Server Error"

C6_Witness ==
  /\ Responded
  /\ origin = "route"
  /\ failure.kind = "Other"
  /\ ~Has(failure, "status")
  /\ ~Has(failure, "isPublic")
  /\ Message(failure) = [message |-> "boom"]
  /\ response.status = 500
  /\ response.body.message = "Internal Server Error"

\* C7: every response of the terminal handler has a body with exactly the
\* fields message and stack, the message present, the stack the empty object
\* unless the mode is dev, and the status of the error (500 when the failure
\* had none, 404 for an unmatched route).
C7_WireContract ==
  Responded =>
    /\ DOMAIN response.body = {"message", "stack"}
    /\ nodeEnv # "dev" => response.body.stack = EmptyObject
    /\ Has(response, "status") /\ response.status = err.status
    /\ (failure.kind = "Other" /\ ~Has(failure, "status")) =>
         response.status = 500
    /\ origin = "notFound" => response.status = 404

\* C8: mode test has neither access log nor audit log; mode prod has the
\* access log on the logger's stream; mode dev has the console access log,
\* the stack in responses and console.error of the error; the audit log is
\* there in every mode but test.
C8_ModeSelectsLogging ==
  /\ nodeEnv = "test" =>
       /\ ~InPipeline("morgan-stream") /\ ~InPipeline("morgan-console")
       /\ ~InPipeline("expressWinston")
       /\ ~InRan("morgan-stream") /\ ~InRan("morgan-console")
       /\ ~InRan("expressWinston")
  /\ nodeEnv = "prod" =>
       InPipeline("morgan-stream") /\ ~InPipeline("morgan-console")
  /\ nodeEnv = "dev" =>
       /\ InPipeline("morgan-console") /\ ~InPipeline("morgan-stream")
       /\ Responded =>
            /\ logged = err
            /\ Pick(response.body, "stack", "stack") = Pick(err, "stack", "stack")
  /\ InPipeline("expressWinston") <=> nodeEnv # "test"

C8_Witness ==
  /\ nodeEnv = "dev"
  /\ Responded
  /\ logged = err
  /\ InRan("morgan-console")
  /\ InRan("expressWinston")

\* C9: after a failure the normalization handler runs next and the terminal
\* handler after it; the 404 middleware runs only when no route matched and
\* never when a route matched or answered; the terminal handler is the last
\* stage run and forwards nowhere; no stage runs twice for one request.
C9_StageOrder ==
  /\ \A i, j \in 1..Len(ran) : i # j => ran[i] # ran[j]
  /\ InRan("notFound") => routeOutcome = "nomatch"
  /\ routeOutcome \in {"responded", "failed"} => ~InRan("notFound")
  /\ \A i \in 1..Len(ran) :
       /\ ran[i] = "normalize" =>
            /\ i > 1 /\ ran[i-1] \in UpstreamStages \cup {"routes"}
            /\ origin \in {"upstream", "route"}
       /\ ran[i] = "errorHandler" =>
            /\ i = Len(ran) /\ Done
            /\ i > 1 /\ ran[i-1] \in {"normalize", "notFound"}
            /\ ran[i-1] = "notFound" <=> origin = "notFound"
  /\ (origin \in {"upstream", "route"} /\ Len(ran) > 0) =>
       \/ ran[Len(ran)] \in UpstreamStages \cup {"routes"}
       \/ ran[Len(ran)] = "normalize"
       \/ ran[Len(ran)] = "errorHandler"
  /\ (Done /\ origin # "none") => InRan("errorHandler")
  /\ (Done /\ origin \in {"upstream", "route"}) => InRan("normalize")

C9_Witness ==
  /\ Done
  /\ origin = "route"
  /\ routeOutcome = "failed"
  /\ Len(ran) > 3
  /\ SubSeq(ran, Len(ran) - 2, Len(ran)) = <<"routes", "normalize", "errorHandler">>

\* C10 as stated: every failure that reaches the terminal handler, the
\* synthetic not-found failure included, has passed the normalization
\* handler, and at most one error reaches the terminal handler per request.
C10_Original ==
  InRan("errorHandler") =>
    /\ InRan("normalize")
    /\ Cardinality({i \in 1..Len(ran) : ran[i] = "errorHandler"}) = 1

\* C10 amended: a failure raised by an upstream stage or by route dispatch
\* has passed the normalization handler before the terminal handler; the
\* not-found failure has not (it is built as an APIError after that handler);
\* the error that reaches the terminal handler is an APIError, and at most
\* one does per request (none when a route answered).
C10_Funnel ==
  /\ InRan("errorHandler") =>
       /\ origin \in {"upstream", "route"} =>
            InRan("normalize") /\ Pos("normalize") < Pos("errorHandler")
       /\ origin = "notFound" => ~InRan("normalize") /\ err = NotFoundError
       /\ origin # "none"
       /\ err.kind = "APIError"
       /\ Cardinality({i \in 1..Len(ran) : ran[i] = "errorHandler"}) = 1
  /\ routeOutcome = "responded" => ~InRan("errorHandler") /\ err = NoErr

C10_Witness ==
  /\ Responded
  /\ origin = "notFound"
  /\ ~InRan("normalize")
  /\ err.kind = "APIError"
  /\ ran[Len(ran) - 1] = "notFound"

====
